---- MODULE Spec2Model ----
(***************************************************************************)
(* Model of the ticket pipeline of src/main.py and of the recent-tickets   *)
(* display of src/display/table_display.py.                                *)
(*                                                                         *)
(* A Python str is a sequence of characters; a character is a one-letter   *)
(* TLA+ string.  Two kinds of symbols stand for more than one letter:      *)
(*   - an e-mail address is one symbol (a member of Emails): the regular   *)
(*     expression of extract_customer_info is modelled as recognising      *)
(*     exactly these symbols;                                              *)
(*   - "U+0130" is LATIN CAPITAL LETTER I WITH DOT ABOVE, the one          *)
(*     character whose str.lower() is two characters ("i", "U+0307").      *)
(***************************************************************************)
EXTENDS Integers, Sequences, FiniteSets, TLC

\* ------------------------------------------------------------------------
\* Bounds of the model
\* ------------------------------------------------------------------------
\* invocations of the program against the same store
MaxRuns == 2

\* truncate_text: longest text and largest max_length tried
MaxStrLen == 5

MaxLength == 5

\* extract_customer_info: most tokens in a ticket text tried
MaxTokens == 4

\* fetch_recent_tickets: most tickets, latest created_at and largest limit tried
MaxFetchTickets == 3

MaxStamp == 2

MaxLimit == 4

\* ------------------------------------------------------------------------
\* Python str operations
\* ------------------------------------------------------------------------
Min(a, b) == IF a <= b THEN a ELSE b

Max(a, b) == IF a >= b THEN a ELSE b

Whitespace == {" ", "\t", "\r", "\n"}

\* str.lower() of one character
LowerChar(c) ==
  CASE c = "N" -> <<"n">>
    [] c = "A" -> <<"a">>
    [] c = "M" -> <<"m">>
    [] c = "E" -> <<"e">>
    [] c = "U+0130" -> <<"i", "U+0307">>
    [] OTHER -> <<c>>

RECURSIVE Lower(_)
Lower(s) == IF s = <<>> THEN <<>> ELSE LowerChar(Head(s)) \o Lower(Tail(s))

\* s[k:] for k >= 0
SliceFrom(s, k) == IF k >= Len(s) THEN <<>> ELSE SubSeq(s, k + 1, Len(s))

\* s[:k], k of either sign
SliceTo(s, k) ==
  IF k >= 0 THEN SubSeq(s, 1, Min(k, Len(s)))
  ELSE SubSeq(s, 1, Max(0, Len(s) + k))

\* sub occurs in s at 0-based position i
MatchAt(s, sub, i) ==
  /\ i >= 0
  /\ i + Len(sub) <= Len(s)
  /\ SubSeq(s, i + 1, i + Len(sub)) = sub

\* s.find(sub)
Find(s, sub) ==
  LET hits == {i \in 0..Len(s) : MatchAt(s, sub, i)}
  IN  IF hits = {} THEN -1 ELSE CHOOSE i \in hits : \A j \in hits : i <= j

\* sub in s
Contains(s, sub) == Find(s, sub) # -1

RECURSIVE LStrip(_)
LStrip(s) ==
  IF s # <<>> /\ Head(s) \in Whitespace THEN LStrip(Tail(s)) ELSE s

RECURSIVE RStrip(_)
RStrip(s) ==
  IF s # <<>> /\ s[Len(s)] \in Whitespace
  THEN RStrip(SubSeq(s, 1, Len(s) - 1)) ELSE s

\* s.strip()
Strip(s) == RStrip(LStrip(s))

\* s.split('\n')
RECURSIVE SplitLines(_)
SplitLines(s) ==
  LET i == Find(s, <<"\n">>)
  IN  IF i = -1 THEN <<s>>
      ELSE <<SliceTo(s, i)>> \o SplitLines(SliceFrom(s, i + 1))

\* sep.join(parts)
RECURSIVE Join(_, _)
Join(sep, parts) ==
  IF parts = <<>> THEN <<>>
  ELSE IF Len(parts) = 1 THEN parts[1]
  ELSE parts[1] \o sep \o Join(sep, Tail(parts))

\* s.upper() on the letters of END
UpperChar(c) ==
  CASE c = "e" -> "E"
    [] c = "n" -> "N"
    [] c = "d" -> "D"
    [] OTHER -> c

Upper(s) == [i \in 1..Len(s) |-> UpperChar(s[i])]

\* ------------------------------------------------------------------------
\* Literals of main.py
\* ------------------------------------------------------------------------
ALL_SAMPLES == <<"A", "L", "L", "_", "S", "A", "M", "P", "L", "E", "S">>

END == <<"E", "N", "D">>

NameMarker == <<"n", "a", "m", "e", ":">>

UnknownEmail == "unknown@example.com"

UnknownCustomer ==
  <<"U", "n", "k", "n", "o", "w", "n", " ", "C", "u", "s", "t", "o", "m", "e", "r">>

Ellipsis == <<".", ".", ".">>

Emails ==
  {"sarah.johnson@email.com", "michael.chen@techcorp.com",
   "emma.davis@design.io", "alex.rivera@startup.com",
   "olivia.martinez@email.com"}

\* ------------------------------------------------------------------------
\* extract_customer_info
\* ------------------------------------------------------------------------
\* re.findall(email_pattern, ticket_content)
RECURSIVE FindAllEmails(_)
FindAllEmails(s) ==
  IF s = <<>> THEN <<>>
  ELSE IF Head(s) \in Emails THEN <<Head(s)>> \o FindAllEmails(Tail(s))
  ELSE FindAllEmails(Tail(s))

\* the for loop over the lines: the value of `name` at loop exit,
\* found = FALSE standing for None
RECURSIVE ScanName(_)
ScanName(lines) ==
  IF lines = <<>> THEN [found |-> FALSE, val |-> <<>>]
  ELSE LET line == Head(lines)
           idx == Find(Lower(line), NameMarker)
       IN  IF Contains(Lower(line), NameMarker)
           THEN IF idx # -1
                THEN [found |-> TRUE, val |-> Strip(SliceFrom(line, idx + 5))]
                ELSE ScanName(Tail(lines))
           ELSE ScanName(Tail(lines))

\* `name or 'Unknown Customer'`: None and '' are both falsy
NameOrDefault_NoneOnly(name) ==
  IF name.found THEN name.val ELSE UnknownCustomer

NameOrDefault(name) ==
  IF name.found /\ name.val # <<>> THEN name.val ELSE UnknownCustomer

extract_customer_info(ticket_content) ==
  LET matches == FindAllEmails(ticket_content)
      name == ScanName(SplitLines(ticket_content))
  IN  [email |-> IF matches # <<>> THEN matches[1] ELSE UnknownEmail,
       name |-> NameOrDefault(name)]

\* ------------------------------------------------------------------------
\* truncate_text
\* ------------------------------------------------------------------------
truncate_text_OffByOne(text, max_length) ==
  IF Len(text) <= max_length THEN text
  ELSE SliceTo(text, max_length - 2) \o Ellipsis

truncate_text(text, max_length) ==
  IF Len(text) <= max_length THEN text
  ELSE SliceTo(text, max_length - 3) \o Ellipsis

\* ------------------------------------------------------------------------
\* Display helpers of table_display.py
\* ------------------------------------------------------------------------
get_priority_color(priority) ==
  CASE priority = "critical" -> "bright_red"
    [] priority = "high" -> "red"
    [] priority = "medium" -> "yellow"
    [] priority = "low" -> "green"
    [] OTHER -> "white"

get_category_color(category) ==
  CASE category = "billing" -> "cyan"
    [] category = "technical" -> "magenta"
    [] category = "feature_request" -> "blue"
    [] category = "general" -> "white"
    [] OTHER -> "white"

\* sentiment scores are carried in hundredths: 15 stands for 0.15
get_sentiment_color(score) ==
  IF score < 40 THEN "red" ELSE IF score < 60 THEN "yellow" ELSE "green"

\* ------------------------------------------------------------------------
\* The store: customers(id, email UNIQUE, name) and tickets(...)
\* ------------------------------------------------------------------------
category_enum == {"billing", "technical", "feature_request", "general"}

priority_enum == {"low", "medium", "high", "critical"}

\* the default of an id column: a surrogate key, a positive value no row of
\* the table has yet
FreshId(rows) ==
  IF rows = {} THEN 1
  ELSE 1 + (CHOOSE m \in {r.id : r \in rows} : \A r \in rows : r.id <= m)

\* the default of created_at, now(): the start of the transaction, later
\* than the start of every transaction before it
Now(ts) ==
  IF ts = {} THEN 1
  ELSE 1 + (CHOOSE m \in {t.created_at : t \in ts} : \A t \in ts : t.created_at <= m)

\* INSERT INTO customers ... ON CONFLICT (email) DO UPDATE SET name = EXCLUDED.name
\* RETURNING id; newId is the value the id column's default would take
UpsertCustomer_KeepName(cs, email, name, newId) ==
  IF \E c \in cs : c.email = email
  THEN cs
  ELSE cs \cup {[id |-> newId, email |-> email, name |-> name]}

UpsertCustomer(cs, email, name, newId) ==
  IF \E c \in cs : c.email = email
  THEN {IF c.email = email THEN [c EXCEPT !.name = name] ELSE c : c \in cs}
  ELSE cs \cup {[id |-> newId, email |-> email, name |-> name]}

\* the id the upsert RETURNs
UpsertedId(cs, email) == (CHOOSE c \in cs : c.email = email).id

\* $4::category_enum and $5::priority_enum accept the value
EnumCastOk(output) ==
  output.category \in category_enum /\ output.priority \in priority_enum

\* INSERT INTO tickets (...) VALUES ($1, ..., $6) RETURNING id
InsertTicket(ts, newId, cid, raw, output, now) ==
  ts \cup {[id |-> newId, customer_id |-> cid, raw_content |-> raw,
            summary |-> output.summary, category |-> output.category,
            priority |-> output.priority,
            sentiment_score |-> output.sentiment_score, created_at |-> now]}

\* exit of `async with conn.transaction()`: commit, or roll back on an exception
TxnExit_NoRollback(committed, working, failed) == working

TxnExit(committed, working, failed) == IF failed THEN committed ELSE working

\* ------------------------------------------------------------------------
\* fetch_recent_tickets
\* ------------------------------------------------------------------------
JoinedRow(t, c) ==
  [id |-> t.id, summary |-> t.summary, category |-> t.category,
   priority |-> t.priority, sentiment_score |-> t.sentiment_score,
   created_at |-> t.created_at, customer_name |-> c.name,
   customer_email |-> c.email]

\* FROM tickets t JOIN customers c ON t.customer_id = c.id
JoinRows(ts, cs) ==
  {JoinedRow(p[1], p[2]) : p \in {q \in ts \X cs : q[1].customer_id = q[2].id}}

\* ORDER BY t.created_at DESC LIMIT n: every order the store may return
\* (rows of equal created_at come in any order)
RECURSIVE OrderedPrefixes_Ascending(_, _)
OrderedPrefixes_Ascending(rows, n) ==
  IF n = 0 \/ rows = {} THEN {<<>>}
  ELSE LET oldest == {r \in rows : \A q \in rows : r.created_at <= q.created_at}
       IN  UNION {{<<r>> \o rest : rest \in OrderedPrefixes_Ascending(rows \ {r}, n - 1)}
                  : r \in oldest}

RECURSIVE OrderedPrefixes(_, _)
OrderedPrefixes(rows, n) ==
  IF n = 0 \/ rows = {} THEN {<<>>}
  ELSE LET newest == {r \in rows : \A q \in rows : q.created_at <= r.created_at}
       IN  UNION {{<<r>> \o rest : rest \in OrderedPrefixes(rows \ {r}, n - 1)}
                  : r \in newest}

\* the results fetch_recent_tickets(pool, limit) may return, limit >= 0
fetch_recent_tickets(ts, cs, limit) == OrderedPrefixes(JoinRows(ts, cs), limit)

\* ------------------------------------------------------------------------
\* display_recent_tickets: the rows added to the table
\* ------------------------------------------------------------------------
\* `highlight_id and ticket['id'] == highlight_id`; None and 0 are both falsy
\* and None is carried as 0
IsNew_AnyRow(highlight_id, id) == highlight_id # 0

IsNew(highlight_id, id) == highlight_id # 0 /\ id = highlight_id

RenderRow(ticket, highlight_id) ==
  [ticket_id |-> ticket.id,
   customer |-> truncate_text(ticket.customer_name, 15),
   summary |-> truncate_text(ticket.summary, 45),
   category_color |-> get_category_color(ticket.category),
   priority_style |->
     IF ticket.priority = "critical"
     THEN <<get_priority_color(ticket.priority), "bold">>
     ELSE <<get_priority_color(ticket.priority)>>,
   sentiment_color |-> get_sentiment_color(ticket.sentiment_score),
   style |-> IF IsNew(highlight_id, ticket.id) THEN "on dark_green" ELSE "None"]

RenderTable(rows, highlight_id) ==
  [j \in 1..Len(rows) |-> RenderRow(rows[j], highlight_id)]

\* ------------------------------------------------------------------------
\* Data of main.py
\* ------------------------------------------------------------------------
EmailLabel == <<"E", "m", "a", "i", "l", ":", " ">>

NameLabel == <<"N", "a", "m", "e", ":", " ">>

\* a sample ticket cut down to its Email: and Name: lines (the other lines
\* of the five samples hold neither an address nor "name:")
SampleText(email, name) ==
  <<"\n">> \o EmailLabel \o <<email>> \o <<"\n">> \o NameLabel \o name \o <<"\n">>

SAMPLE_TICKETS ==
  <<SampleText("sarah.johnson@email.com", <<"S", "a", "r", "a", "h", " ", "J", "o", "h", "n", "s", "o", "n">>),
    SampleText("michael.chen@techcorp.com", <<"M", "i", "c", "h", "a", "e", "l", " ", "C", "h", "e", "n">>),
    SampleText("emma.davis@design.io", <<"E", "m", "m", "a", " ", "D", "a", "v", "i", "s">>),
    SampleText("alex.rivera@startup.com", <<"A", "l", "e", "x", " ", "R", "i", "v", "e", "r", "a">>),
    SampleText("olivia.martinez@email.com", <<"O", "l", "i", "v", "i", "a", " ", "M", "a", "r", "t", "i", "n", "e", "z">>)>>

InteractiveFlags == {<<"-", "-", "i", "n", "t", "e", "r", "a", "c", "t", "i", "v", "e">>, <<"-", "i">>}

AllFlags == {<<"-", "-", "a", "l", "l">>, <<"-", "a">>}

\* limit=5 of both display_recent_tickets calls
DisplayLimit == 5

\* ------------------------------------------------------------------------
\* Inputs of a run: sys.argv[1:], the lines on stdin, the classifier's output
\* ------------------------------------------------------------------------
ArgvChoices ==
  {<<>>}
  \cup {<<f>> : f \in InteractiveFlags \cup AllFlags}
  \cup {<<ALL_SAMPLES>>,
        <<<<"h", "i">>>>,
        <<<<"sarah.johnson@email.com">>, <<"N", "a", "m", "e", ":">>, <<"Z", "e", "d">>>>}

StdinChoices ==
  {<<>>,
   <<<<"h", "i">>, <<" ", "e", "n", "d", " ">>, <<"x">>>>,
   <<<<"h", "i">>, <<"y", "o">>>>,
   <<ALL_SAMPLES, END>>}

GoodOutput ==
  [summary |-> <<"D", "u", "p", "l", "i", "c", "a", "t", "e", " ", "b", "i", "l", "l", "i", "n", "g", " ", "c", "h", "a", "r", "g", "e">>,
   category |-> "billing", priority |-> "critical", sentiment_score |-> 15]

\* what agent.run may return: the agent is an external service
Outputs ==
  {GoodOutput,
   [GoodOutput EXCEPT !.category = "refund"],
   [GoodOutput EXCEPT !.priority = "urgent"]}

NoOutput == [summary |-> <<>>, category |-> "", priority |-> "", sentiment_score |-> 0]

NoInfo == [email |-> "", name |-> <<>>]

NoTx == [active |-> FALSE, customers |-> {}, tickets |-> {}, now |-> 0]

NoCall == [op |-> "none"]

\* ------------------------------------------------------------------------
\* State
\* ------------------------------------------------------------------------
VARIABLES
  run,             \* number of invocations of the program so far
  argv,            \* sys.argv[1:] of the current invocation
  stdin,           \* the lines still to be read by input()
  pc,              \* position of main()
  lines,           \* get_interactive_ticket: lines
  ticket_input,    \* main: ticket_input
  pool,            \* main: pool ("none", "open", "closed")
  work,            \* the tickets the selected branch of main processes
  batch,           \* TRUE in the ALL_SAMPLES branch of main
  i,               \* index of the ticket being processed
  customer_info,   \* process_single_ticket: customer_info
  result,          \* process_single_ticket: result.output
  customers,       \* committed rows of table customers
  tickets,         \* committed rows of table tickets
  tx,              \* the open transaction's view of the tables
  customer_id,     \* process_single_ticket: customer_id (0 before assignment)
  ticket_id,       \* process_single_ticket: ticket_id (0 before assignment)
  last_ticket_id,  \* main: last_ticket_id / ticket_id (0 is None)
  exc,             \* the exception in flight ("none" or the step that raised)
  raised,          \* what main() raised to its caller
  trace,           \* history: the steps of the current run, in order
  startStore,      \* history: the tables when the current ticket was taken up
  pre,             \* history: the tables when the persist step began
  persist,         \* history: state of the latest persist step
  lastName,        \* history: email -> name of its latest committed persist
  displayed,       \* history: the display_recent_tickets calls of the run
  closeCalls,      \* history: close_pool calls of the run
  invoked,         \* history: the mode the command line asked for
  body,            \* history: the ticket body the user supplied
  fn               \* a call of one function on its own (see the Spec* below)

inputVars == <<run, argv, stdin, invoked, body>>

mainVars == <<pc, lines, ticket_input, pool, work, batch, i, last_ticket_id,
              exc, raised>>

ticketVars == <<customer_info, result, customer_id, ticket_id>>

storeVars == <<customers, tickets, tx>>

histVars == <<trace, startStore, pre, persist, lastName, displayed, closeCalls>>

vars == <<inputVars, mainVars, ticketVars, storeVars, histVars, fn>>

Store == [customers |-> customers, tickets |-> tickets]

EmptyStore == [customers |-> {}, tickets |-> {}]

\* the mode a command line asks for
ModeOf(args) ==
  IF args = <<>> THEN "default"
  ELSE IF args[1] \in InteractiveFlags THEN "interactive"
  ELSE IF args[1] \in AllFlags THEN "batch"
  ELSE "adhoc"

IsEndLine(line) == Upper(Strip(line)) = END

\* the lines entered before the first END line
RECURSIVE LinesBeforeEnd(_)
LinesBeforeEnd(in) ==
  IF in = <<>> \/ IsEndLine(Head(in)) THEN <<>>
  ELSE <<Head(in)>> \o LinesBeforeEnd(Tail(in))

MainInit ==
  /\ run = 0
  /\ argv = <<>>
  /\ stdin = <<>>
  /\ pc = "idle"
  /\ lines = <<>>
  /\ ticket_input = <<>>
  /\ pool = "none"
  /\ work = <<>>
  /\ batch = FALSE
  /\ i = 0
  /\ customer_info = NoInfo
  /\ result = NoOutput
  /\ customers = {}
  /\ tickets = {}
  /\ tx = NoTx
  /\ customer_id = 0
  /\ ticket_id = 0
  /\ last_ticket_id = 0
  /\ exc = "none"
  /\ raised = "none"
  /\ trace = <<>>
  /\ startStore = EmptyStore
  /\ pre = EmptyStore
  /\ persist = "none"
  /\ lastName = <<>>
  /\ displayed = <<>>
  /\ closeCalls = 0
  /\ invoked = "none"
  /\ body = <<>>

Init == MainInit /\ fn = NoCall

Log(ev, k) == trace' = Append(trace, [ev |-> ev, k |-> k])

\* an exception leaves the try block of main
Raise_Swallowed(source) == exc' = exc /\ pc' = "display"

Raise(source) == exc' = source /\ pc' = "except"

\* agent.run raises: process_single_ticket does not catch it
ClassifyRaises_Ignored == exc' = exc /\ pc' = "begin"

ClassifyRaises == Raise("classify")

\* ------------------------------------------------------------------------
\* One invocation of the program: `python -m src.main ...`
\* ------------------------------------------------------------------------
Invoke ==
  /\ pc \in {"idle", "exited"}
  /\ run < MaxRuns
  /\ run' = run + 1
  /\ \E args \in ArgvChoices :
       /\ argv' = args
       /\ invoked' = ModeOf(args)
       /\ \E in \in (IF ModeOf(args) = "interactive" THEN StdinChoices ELSE {<<>>}) :
            /\ stdin' = in
            /\ body' = CASE ModeOf(args) = "adhoc" -> Join(<<" ">>, args)
                         [] ModeOf(args) = "interactive" ->
                              Join(<<"\n">>, LinesBeforeEnd(in))
                         [] OTHER -> <<>>
  /\ pc' = "get_ticket_input"
  /\ lines' = <<>>
  /\ ticket_input' = <<>>
  /\ pool' = "none"
  /\ work' = <<>>
  /\ batch' = FALSE
  /\ i' = 0
  /\ last_ticket_id' = 0
  /\ exc' = "none"
  /\ raised' = "none"
  /\ customer_info' = NoInfo
  /\ result' = NoOutput
  /\ customer_id' = 0
  /\ ticket_id' = 0
  /\ trace' = <<>>
  /\ startStore' = Store
  /\ pre' = Store
  /\ persist' = "none"
  /\ displayed' = <<>>
  /\ closeCalls' = 0
  /\ UNCHANGED <<storeVars, lastName, fn>>

\* get_ticket_input; SAMPLE_TICKET is random.choice(SAMPLE_TICKETS), drawn
\* here, where its value is first used
get_ticket_input ==
  /\ pc = "get_ticket_input"
  /\ IF Len(argv) > 0
     THEN IF argv[1] \in InteractiveFlags
          THEN pc' = "get_interactive_ticket" /\ ticket_input' = ticket_input
          ELSE IF argv[1] \in AllFlags
          THEN pc' = "settings" /\ ticket_input' = ALL_SAMPLES
          ELSE pc' = "settings" /\ ticket_input' = Join(<<" ">>, argv)
     ELSE /\ pc' = "settings"
          /\ \E s \in 1..Len(SAMPLE_TICKETS) : ticket_input' = SAMPLE_TICKETS[s]
  /\ UNCHANGED <<inputVars, lines, pool, work, batch, i, last_ticket_id, exc,
                 raised, ticketVars, storeVars, histVars, fn>>

\* get_interactive_ticket: one turn of the while loop, or the return
get_interactive_ticket ==
  /\ pc = "get_interactive_ticket"
  /\ IF stdin = <<>> \/ IsEndLine(Head(stdin))
     THEN /\ ticket_input' = Join(<<"\n">>, lines)
          /\ pc' = "settings"
          /\ UNCHANGED <<lines, stdin>>
     ELSE /\ lines' = Append(lines, Head(stdin))
          /\ stdin' = Tail(stdin)
          /\ UNCHANGED <<ticket_input, pc>>
  /\ UNCHANGED <<run, argv, invoked, body, pool, work, batch, i, last_ticket_id,
                 exc, raised, ticketVars, storeVars, histVars, fn>>

\* steps 1 to 4 of main: each either succeeds or raises
LoadSettings ==
  /\ pc = "settings"
  /\ \E ok \in BOOLEAN :
       IF ok THEN pc' = "create_pool" /\ exc' = exc ELSE Raise("settings")
  /\ UNCHANGED <<inputVars, lines, ticket_input, pool, work, batch, i,
                 last_ticket_id, raised, ticketVars, storeVars, histVars, fn>>

CreatePool ==
  /\ pc = "create_pool"
  /\ \E ok \in BOOLEAN :
       IF ok THEN pc' = "init_database" /\ pool' = "open" /\ exc' = exc
       ELSE Raise("create_pool") /\ pool' = pool
  /\ UNCHANGED <<inputVars, lines, ticket_input, work, batch, i,
                 last_ticket_id, raised, ticketVars, storeVars, histVars, fn>>

InitDatabase ==
  /\ pc = "init_database"
  /\ \E ok \in BOOLEAN :
       IF ok THEN pc' = "create_agent" /\ exc' = exc ELSE Raise("init_database")
  /\ UNCHANGED <<inputVars, lines, ticket_input, pool, work, batch, i,
                 last_ticket_id, raised, ticketVars, storeVars, histVars, fn>>

\* create_ticket_agent, then the choice of the branch at `if ticket_input ==
\* 'ALL_SAMPLES'` and the entry into its first ticket
CreateAgent ==
  /\ pc = "create_agent"
  /\ \E ok \in BOOLEAN :
       IF ok
       THEN /\ pc' = "extract"
            /\ exc' = exc
            /\ batch' = (ticket_input = ALL_SAMPLES)
            /\ work' = IF ticket_input = ALL_SAMPLES THEN SAMPLE_TICKETS
                       ELSE <<ticket_input>>
            /\ i' = 1
       ELSE Raise("create_agent") /\ UNCHANGED <<batch, work, i>>
  /\ UNCHANGED <<inputVars, lines, ticket_input, pool, last_ticket_id, raised,
                 ticketVars, storeVars, histVars, fn>>

\* ------------------------------------------------------------------------
\* process_single_ticket(work[i], agent, pool)
\* ------------------------------------------------------------------------
Extract ==
  /\ pc = "extract"
  /\ customer_info' = extract_customer_info(work[i])
  /\ result' = NoOutput
  /\ customer_id' = 0
  /\ ticket_id' = 0
  /\ pc' = "classify"
  /\ startStore' = Store
  /\ Log("extract", i)
  /\ UNCHANGED <<inputVars, lines, ticket_input, pool, work, batch, i,
                 last_ticket_id, exc, raised, storeVars, pre, persist,
                 lastName, displayed, closeCalls, fn>>

\* await agent.run(...)
Classify ==
  /\ pc = "classify"
  /\ \/ \E out \in Outputs :
          /\ result' = out
          /\ pc' = "begin"
          /\ exc' = exc
          /\ Log("classified", i)
     \/ /\ ClassifyRaises
        /\ Log("failed", i)
        /\ UNCHANGED result
  /\ UNCHANGED <<inputVars, lines, ticket_input, pool, work, batch, i,
                 last_ticket_id, raised, customer_info, customer_id, ticket_id,
                 storeVars, startStore, pre, persist, lastName, displayed,
                 closeCalls, fn>>

\* the tables after the transaction block is left
Leave(failed) ==
  LET final == TxnExit(Store, [customers |-> tx.customers, tickets |-> tx.tickets],
                       failed)
  IN  /\ customers' = final.customers
      /\ tickets' = final.tickets
      /\ tx' = NoTx

\* the persist step raises: the exception passes through both `async with`
PersistFails ==
  /\ Leave(TRUE)
  /\ persist' = "failed"
  /\ Raise("persist")
  /\ Log("failed", i)

\* async with pool.acquire() as conn: async with conn.transaction():
Begin ==
  /\ pc = "begin"
  /\ pre' = Store
  /\ \E ok \in BOOLEAN :
       IF ok
       THEN /\ tx' = [active |-> TRUE, customers |-> customers,
                      tickets |-> tickets, now |-> Now(tickets)]
            /\ persist' = "running"
            /\ pc' = "upsert"
            /\ Log("begin", i)
            /\ UNCHANGED <<customers, tickets, exc>>
       ELSE /\ persist' = "failed"
            /\ Raise("persist")
            /\ Log("failed", i)
            /\ UNCHANGED <<customers, tickets, tx>>
  /\ UNCHANGED <<inputVars, lines, ticket_input, pool, work, batch, i,
                 last_ticket_id, raised, ticketVars, startStore, lastName,
                 displayed, closeCalls, fn>>

\* customer_id = await conn.fetchval(INSERT INTO customers ... RETURNING id)
Upsert ==
  /\ pc = "upsert"
  /\ \E ok \in BOOLEAN :
       IF ok
       THEN LET cs == UpsertCustomer(tx.customers, customer_info.email,
                                     customer_info.name,
                                     FreshId(tx.customers))
            IN  /\ tx' = [tx EXCEPT !.customers = cs]
                /\ customer_id' = UpsertedId(cs, customer_info.email)
                /\ pc' = "insert"
                /\ UNCHANGED <<customers, tickets, persist, exc, trace>>
       ELSE PersistFails /\ UNCHANGED customer_id
  /\ UNCHANGED <<inputVars, lines, ticket_input, pool, work, batch, i,
                 last_ticket_id, raised, customer_info, result, ticket_id,
                 startStore, pre, lastName, displayed, closeCalls, fn>>

\* ticket_id = await conn.fetchval(INSERT INTO tickets ... RETURNING id)
Insert ==
  /\ pc = "insert"
  /\ \E ok \in BOOLEAN :
       IF ok /\ EnumCastOk(result)
       THEN /\ tx' = [tx EXCEPT !.tickets =
                        InsertTicket(tx.tickets, FreshId(tx.tickets),
                                     customer_id, work[i], result, tx.now)]
            /\ ticket_id' = FreshId(tx.tickets)
            /\ pc' = "commit"
            /\ UNCHANGED <<customers, tickets, persist, exc, trace>>
       ELSE PersistFails /\ UNCHANGED ticket_id
  /\ UNCHANGED <<inputVars, lines, ticket_input, pool, work, batch, i,
                 last_ticket_id, raised, customer_info, result, customer_id,
                 startStore, pre, lastName, displayed, closeCalls, fn>>

\* the transaction block is left normally (COMMIT), process_single_ticket
\* returns ticket_id and main goes to the next ticket or to the display
Commit ==
  /\ pc = "commit"
  /\ \E ok \in BOOLEAN :
       IF ok
       THEN /\ Leave(FALSE)
            /\ persist' = "ok"
            /\ lastName' = [e \in DOMAIN lastName \cup {customer_info.email} |->
                              IF e = customer_info.email THEN customer_info.name
                              ELSE lastName[e]]
            /\ last_ticket_id' = ticket_id
            /\ Log("committed", i)
            /\ IF i < Len(work)
               THEN i' = i + 1 /\ pc' = "extract"
               ELSE i' = i /\ pc' = "display"
            /\ exc' = exc
       ELSE PersistFails /\ UNCHANGED <<lastName, last_ticket_id, i>>
  /\ UNCHANGED <<inputVars, lines, ticket_input, pool, work, batch, raised,
                 ticketVars, startStore, pre, displayed, closeCalls, fn>>

\* ------------------------------------------------------------------------
\* display_recent_tickets(pool, limit=5, highlight_id=...)
\* ------------------------------------------------------------------------
Display ==
  /\ pc = "display"
  /\ \E outcome \in {"ok", "fetch_error", "render_error"} :
     \E rows \in fetch_recent_tickets(tickets, customers, DisplayLimit) :
       /\ displayed' = Append(displayed,
            [limit |-> DisplayLimit,
             highlight_id |-> last_ticket_id,
             outcome |-> outcome,
             table |-> IF outcome = "ok" THEN RenderTable(rows, last_ticket_id)
                       ELSE <<>>])
       /\ IF outcome = "ok" THEN pc' = "finally" /\ exc' = exc
          ELSE Raise("display")
  /\ Log("display", 0)
  /\ UNCHANGED <<inputVars, lines, ticket_input, pool, work, batch, i,
                 last_ticket_id, raised, ticketVars, storeVars, startStore,
                 pre, persist, lastName, closeCalls, fn>>

\* except Exception as e: print, traceback, raise
ExceptHandler ==
  /\ pc = "except"
  /\ pc' = "finally"
  /\ UNCHANGED <<inputVars, lines, ticket_input, pool, work, batch, i,
                 last_ticket_id, exc, raised, ticketVars, storeVars, histVars,
                 fn>>

\* finally: if pool is not None: await close_pool(pool); then main returns or
\* the exception in flight goes on to the caller
Finally_NoClose ==
  /\ pc = "finally"
  /\ UNCHANGED <<pool, closeCalls, trace>>
  /\ raised' = exc
  /\ pc' = "exited"
  /\ UNCHANGED <<inputVars, lines, ticket_input, work, batch, i,
                 last_ticket_id, exc, ticketVars, storeVars, startStore, pre,
                 persist, lastName, displayed, fn>>

Finally ==
  /\ pc = "finally"
  /\ IF pool # "none"
     THEN pool' = "closed" /\ closeCalls' = closeCalls + 1 /\ Log("close", 0)
     ELSE UNCHANGED <<pool, closeCalls, trace>>
  /\ raised' = exc
  /\ pc' = "exited"
  /\ UNCHANGED <<inputVars, lines, ticket_input, work, batch, i,
                 last_ticket_id, exc, ticketVars, storeVars, startStore, pre,
                 persist, lastName, displayed, fn>>

Next ==
  \/ Invoke
  \/ get_ticket_input
  \/ get_interactive_ticket
  \/ LoadSettings
  \/ CreatePool
  \/ InitDatabase
  \/ CreateAgent
  \/ Extract
  \/ Classify
  \/ Begin
  \/ Upsert
  \/ Insert
  \/ Commit
  \/ Display
  \/ ExceptHandler
  \/ Finally

Spec == Init /\ [][Next]_vars

\* ------------------------------------------------------------------------
\* The functions on their own: each specification draws the arguments of one
\* call from a bounded set and makes the call
\* ------------------------------------------------------------------------
mainState == <<inputVars, mainVars, ticketVars, storeVars, histVars>>

\* all strings over alphabet A of length at most n
Strings(A, n) == UNION {[1..k -> A] : k \in 0..n}

RECURSIVE Flatten(_)
Flatten(ss) == IF ss = <<>> THEN <<>> ELSE Head(ss) \o Flatten(Tail(ss))

TruncAlphabet == {"a", "b", "."}

InitTruncate ==
  /\ MainInit
  /\ fn \in {[op |-> "truncate_text", text |-> t, max_length |-> n,
              out |-> <<>>, done |-> FALSE] :
             t \in Strings(TruncAlphabet, MaxStrLen), n \in 0..MaxLength}

CallTruncate ==
  /\ fn.op = "truncate_text"
  /\ ~fn.done
  /\ fn' = [fn EXCEPT !.out = truncate_text(fn.text, fn.max_length),
                      !.done = TRUE]
  /\ UNCHANGED mainState

SpecTruncate == InitTruncate /\ [][CallTruncate]_vars

ExtractTokens ==
  {<<"N", "a", "m", "e", ":">>, <<"n", "A", "M", "E", ":">>, <<" ">>, <<"b">>, <<"\n">>,
   <<"U+0130">>}

InitExtract ==
  /\ MainInit
  /\ fn \in {[op |-> "extract_customer_info", text |-> Flatten(ts),
              out |-> NoInfo, done |-> FALSE] :
             ts \in Strings(ExtractTokens, MaxTokens)}

CallExtract ==
  /\ fn.op = "extract_customer_info"
  /\ ~fn.done
  /\ fn' = [fn EXCEPT !.out = extract_customer_info(fn.text), !.done = TRUE]
  /\ UNCHANGED mainState

SpecExtract == InitExtract /\ [][CallExtract]_vars

\* stores that satisfy the schema: ids and emails unique, every ticket's
\* customer_id that of a customer row
FetchCustomer(k) ==
  [id |-> k,
   email |-> IF k = 1 THEN "sarah.johnson@email.com" ELSE "emma.davis@design.io",
   name |-> IF k = 1 THEN <<"S", "a", "r", "a", "h">> ELSE <<"E", "m", "m", "a">>]

FetchTicket(k, cid, stamp) ==
  [id |-> k, customer_id |-> cid, raw_content |-> <<>>,
   summary |-> GoodOutput.summary, category |-> GoodOutput.category,
   priority |-> GoodOutput.priority,
   sentiment_score |-> GoodOutput.sentiment_score, created_at |-> stamp]

FetchStores ==
  UNION {{[customers |-> {FetchCustomer(k) : k \in 1..nc},
           tickets |-> {FetchTicket(k, f[k][1], f[k][2]) : k \in 1..nt}] :
          f \in [1..nt -> (1..nc) \X (1..MaxStamp)]} :
         nc \in 1..2, nt \in 0..MaxFetchTickets}

InitFetch ==
  /\ MainInit
  /\ fn \in {[op |-> "fetch_recent_tickets", customers |-> st.customers,
              tickets |-> st.tickets, limit |-> n, rows |-> <<>>,
              done |-> FALSE] :
             st \in FetchStores, n \in 0..MaxLimit}

CallFetch ==
  /\ fn.op = "fetch_recent_tickets"
  /\ ~fn.done
  /\ \E rows \in fetch_recent_tickets(fn.tickets, fn.customers, fn.limit) :
       fn' = [fn EXCEPT !.rows = rows, !.done = TRUE]
  /\ UNCHANGED mainState

SpecFetch == InitFetch /\ [][CallFetch]_vars

\* ------------------------------------------------------------------------
\* Properties
\* ------------------------------------------------------------------------
Events == 1..Len(trace)

Happened(ev, k) == \E p \in Events : trace[p].ev = ev /\ trace[p].k = k

\* C1: the persist step is atomic.  When it has failed, at whatever point,
\* the tables equal the tables before the step; when it has succeeded,
\* exactly one ticket row and at most one customer row were added, and the
\* new ticket's customer_id is the id of a customer row.
C1_PersistAtomic ==
  /\ persist = "failed" => Store = pre
  /\ persist = "ok" =>
       /\ pre.tickets \subseteq tickets
       /\ Cardinality(tickets) = Cardinality(pre.tickets) + 1
       /\ Cardinality(customers) \in
            {Cardinality(pre.customers), Cardinality(pre.customers) + 1}
       /\ \A c \in pre.customers : \E d \in customers : d.id = c.id
       /\ \A t \in tickets \ pre.tickets :
            \E c \in customers : c.id = t.customer_id

\* a persist step that failed in the ticket insert, after the upsert had
\* written a customer row not in the tables before
C1_Witness ==
  /\ persist = "failed"
  /\ customer_id # 0
  /\ ~EnumCastOk(result)
  /\ \A c \in pre.customers : c.id # customer_id

\* C2: at most one customer row per email, every ticket row references a
\* customer row, and each customer's name is the name of the latest
\* committed persist for its email.
C2_LastWriteWins ==
  /\ \A c, d \in customers : c.email = d.email => c = d
  /\ \A t \in tickets : \E c \in customers : c.id = t.customer_id
  /\ \A c \in customers :
       c.email \in DOMAIN lastName /\ c.name = lastName[c.email]
  /\ DOMAIN lastName = {c.email : c \in customers}

\* two committed persists for one email with different names: the sample
\* ticket of Sarah Johnson, then an ad hoc ticket naming her Zed
C2_Witness ==
  \E c \in customers :
    /\ c.name = <<"Z", "e", "d">>
    /\ \E t \in tickets :
         t.customer_id = c.id /\ t.raw_content = SAMPLE_TICKETS[1]
    /\ Cardinality({d \in customers : d.email = c.email}) = 1

\* C3: a ticket's persist step starts only after that ticket's
\* classification returned, tickets are handled one after another, and when
\* ticket k fails nothing is written for it and no later ticket is touched.
C3_Sequential ==
  /\ \A p \in Events :
       trace[p].ev = "begin" =>
         \E q \in 1..(p - 1) :
           trace[q].ev = "classified" /\ trace[q].k = trace[p].k
  /\ \A p \in Events :
       (trace[p].ev = "extract" /\ trace[p].k > 1) =>
         \E q \in 1..(p - 1) :
           trace[q].ev = "committed" /\ trace[q].k = trace[p].k - 1
  /\ \A p, q \in Events :
       (p < q /\ trace[p].k # 0 /\ trace[q].k # 0) => trace[p].k <= trace[q].k
  /\ \A p \in Events :
       trace[p].ev = "failed" =>
         /\ Store = startStore
         /\ ~Happened("committed", trace[p].k)
         /\ \A q \in Events : trace[q].k <= trace[p].k
         /\ \A q \in Events : q > p => trace[q].ev = "close"

\* a batch run that ended after the classification of its second ticket
\* failed
C3_Witness ==
  /\ pc = "exited"
  /\ batch
  /\ raised = "classify"
  /\ Happened("committed", 1)
  /\ Happened("failed", 2)

AllProcessed == work # <<>> /\ Happened("committed", Len(work))

\* C4: display_recent_tickets is called at most once in a run, only after
\* the last ticket's persist has committed, with limit 5 and the id of the
\* last ticket as highlight_id; a run that processed all its tickets calls
\* it, a run in which a ticket failed does not.
C4_DisplayOnce ==
  /\ Len(displayed) <= 1
  /\ (pc \in {"finally", "except", "exited"} /\ AllProcessed) => Len(displayed) = 1
  /\ (\E p \in Events : trace[p].ev = "failed") => displayed = <<>>
  /\ \A d \in 1..Len(displayed) :
       /\ AllProcessed
       /\ displayed[d].limit = 5
       /\ displayed[d].highlight_id = ticket_id
       /\ \E t \in tickets :
            t.id = displayed[d].highlight_id /\ t.raw_content = work[Len(work)]
       /\ \E p, q \in Events :
            /\ p < q
            /\ trace[p] = [ev |-> "committed", k |-> Len(work)]
            /\ trace[q].ev = "display"
       /\ Cardinality({q \in Events : trace[q].ev = "display"}) = 1

\* a batch run on a store that already held a ticket has displayed and
\* returned
C4_Witness ==
  /\ pc = "exited"
  /\ raised = "none"
  /\ batch
  /\ Len(displayed) = 1
  /\ Cardinality(tickets) > Len(work)

\* C5: once the pool exists, main calls close_pool exactly once before it
\* returns or raises, nothing touches the store after that, and the
\* exception of the failed step is what main raises.
C5_Teardown ==
  /\ closeCalls <= 1
  /\ (pc = "exited" /\ pool # "none") => (closeCalls = 1 /\ pool = "closed")
  /\ pool = "open" => closeCalls = 0
  /\ pool = "closed" =>
       (pc = "exited" /\ ~tx.active /\ trace[Len(trace)].ev = "close")
  /\ pc = "exited" =>
       /\ raised = exc
       /\ (\E p \in Events : trace[p].ev = "failed") =>
            raised \in {"classify", "persist"}
       /\ (\E d \in 1..Len(displayed) : displayed[d].outcome # "ok") =>
            raised = "display"
       /\ (raised = "none") <=>
            (\E d \in 1..Len(displayed) : displayed[d].outcome = "ok")

\* main has raised the exception of a failed persist step and the pool is
\* closed
C5_Witness ==
  /\ pc = "exited"
  /\ raised = "persist"
  /\ closeCalls = 1
  /\ pool = "closed"

\* C6: fetch_recent_tickets returns min(limit, number of tickets) rows, each
\* a ticket with the name and email of its own customer, newest first, and
\* no ticket left out is newer than one returned; no ticket, no row.
C6_FetchRecent ==
  (fn.op = "fetch_recent_tickets" /\ fn.done) =>
    LET rows == fn.rows
        idx == 1..Len(rows)
    IN  /\ Len(rows) = Min(fn.limit, Cardinality(fn.tickets))
        /\ \A j, k \in idx : rows[j].id = rows[k].id => j = k
        /\ \A j \in idx :
             \E t \in fn.tickets :
               /\ t.id = rows[j].id
               /\ t.created_at = rows[j].created_at
               /\ t.summary = rows[j].summary
               /\ \E c \in fn.customers :
                    /\ c.id = t.customer_id
                    /\ c.name = rows[j].customer_name
                    /\ c.email = rows[j].customer_email
        /\ \A j, k \in idx : j < k => rows[j].created_at >= rows[k].created_at
        /\ \A t \in fn.tickets :
             (\A j \in idx : rows[j].id # t.id) =>
               \A j \in idx : t.created_at <= rows[j].created_at
        /\ fn.tickets = {} => rows = <<>>

\* a fetch that left out an older ticket and returned two of different age
C6_Witness ==
  /\ fn.op = "fetch_recent_tickets"
  /\ fn.done
  /\ Len(fn.rows) = 2
  /\ Cardinality(fn.tickets) = 3
  /\ fn.rows[1].created_at > fn.rows[2].created_at
  /\ fn.rows[1].customer_email # fn.rows[2].customer_email

EndsWithEllipsis(s) == Len(s) >= 3 /\ SubSeq(s, Len(s) - 2, Len(s)) = Ellipsis

\* C7 as stated: for every s and every n, truncate_text(s, n) is s when
\* len(s) <= n and otherwise has length exactly n and ends in "...".
C7_TruncateAnyLength ==
  (fn.op = "truncate_text" /\ fn.done) =>
    IF Len(fn.text) <= fn.max_length THEN fn.out = fn.text
    ELSE Len(fn.out) = fn.max_length /\ EndsWithEllipsis(fn.out)

\* C7 amended: truncate_text(s, n) is s when len(s) <= n; when len(s) > n
\* and n >= 3 it is the first n - 3 characters of s followed by "...", of
\* length exactly n.
C7_TruncateFrom3 ==
  (fn.op = "truncate_text" /\ fn.done) =>
    /\ Len(fn.text) <= fn.max_length => fn.out = fn.text
    /\ (Len(fn.text) > fn.max_length /\ fn.max_length >= 3) =>
         /\ Len(fn.out) = fn.max_length
         /\ EndsWithEllipsis(fn.out)
         /\ \A j \in 1..(fn.max_length - 3) : fn.out[j] = fn.text[j]

\* a text of 5 characters cut to 4
C7_Witness ==
  /\ fn.op = "truncate_text"
  /\ fn.done
  /\ fn.max_length = 4
  /\ Len(fn.text) = 5
  /\ fn.out = <<fn.text[1], ".", ".", ".">>

\* "name:" in any letter case stands at 0-based position p of the line
MarkerAt(line, p) ==
  /\ p + 5 <= Len(line)
  /\ Lower(SubSeq(line, p + 1, p + 5)) = NameMarker

HasMarker(line) == \E p \in 0..Len(line) : MarkerAt(line, p)

\* the trimmed text that follows the first "name:" of the line
AfterMarker(line) ==
  LET p == CHOOSE q \in 0..Len(line) :
             MarkerAt(line, q) /\ \A r \in 0..(q - 1) : ~MarkerAt(line, r)
  IN  Strip(SliceFrom(line, p + 5))

\* the first line of the text that holds "name:"
FirstMarkerLine(text) ==
  LET ls == SplitLines(text)
      j == CHOOSE k \in 1..Len(ls) :
             HasMarker(ls[k]) /\ \A m \in 1..(k - 1) : ~HasMarker(ls[m])
  IN  ls[j]

TextHasMarker(text) ==
  \E k \in 1..Len(SplitLines(text)) : HasMarker(SplitLines(text)[k])

AfterLoweredMarker(line) ==
  LET low == Lower(line)
      p == CHOOSE q \in 0..Len(low) :
             MatchAt(low, NameMarker, q)
             /\ \A r \in 0..(q - 1) : ~MatchAt(low, NameMarker, r)
  IN  Strip(SliceFrom(line, p + 5))

NoExpandingChar(line) == \A j \in 1..Len(line) : line[j] # "U+0130"

C9_ModeFromInvocation ==
  work # <<>> =>
    /\ invoked \in {"adhoc", "interactive"} => work = <<body>>
    /\ batch => invoked = "batch"
    /\ invoked = "batch" => (batch /\ work = SAMPLE_TICKETS)

NewestTicket == CHOOSE t \in tickets : \A q \in tickets : q.created_at <= t.created_at

\* C10: the table of a successful run has exactly one highlighted row, the
\* row of the ticket the run persisted last, which is the newest ticket of
\* the store; every other row has the default style.
C10_OneHighlight ==
  \A d \in 1..Len(displayed) :
    displayed[d].outcome = "ok" =>
      LET table == displayed[d].table
          lit == {j \in 1..Len(table) : table[j].style = "on dark_green"}
      IN  /\ Cardinality(lit) = 1
          /\ \A j \in lit :
               /\ table[j].ticket_id = NewestTicket.id
               /\ table[j].ticket_id = ticket_id
               /\ NewestTicket.raw_content = work[Len(work)]
          /\ \A j \in (1..Len(table)) \ lit : table[j].style = "None"
          /\ Len(table) = Min(5, Cardinality(tickets))

\* a table of five rows, one highlighted, shown over a store of more than
\* five tickets
C10_Witness ==
  /\ pc = "exited"
  /\ raised = "none"
  /\ Cardinality(tickets) > 5
  /\ Len(displayed) = 1
  /\ Len(displayed[1].table) = 5
  /\ displayed[1].table[1].style = "on dark_green"
  /\ displayed[1].table[2].style = "None"

====
